---- MODULE Spec2Model ----
(***************************************************************************)
(* A model of the ITNB scraper (src/src/scraper.py) and of the GroundX     *)
(* ingestion pipeline (src/src/ingest.py).                                 *)
(*                                                                         *)
(* Strings are sequences of one-character strings, so that rstrip,         *)
(* startswith, endswith, the substring tests of _is_valid_url and the      *)
(* splitting done by urllib.parse.urlparse are computed, not assumed.      *)
(***************************************************************************)
EXTENDS Integers, Sequences, FiniteSets, TLC

(***************************************************************************)
(* Bounds of the model.                                                    *)
(***************************************************************************)
\* max_pages is drawn from 0..MaxPages
MaxPages == 3

(***************************************************************************)
(* String helpers (Python str methods).                                    *)
(***************************************************************************)
StartsWith(s, p) == Len(s) >= Len(p) /\ SubSeq(s, 1, Len(p)) = p

EndsWith(s, p) == Len(s) >= Len(p) /\ SubSeq(s, Len(s) - Len(p) + 1, Len(s)) = p

\* p in s
Contains(s, p) ==
    \E i \in 1..(Len(s) - Len(p) + 1) : SubSeq(s, i, i + Len(p) - 1) = p

\* s.rstrip(c): every trailing c is removed
RECURSIVE RStrip(_, _)
RStrip(s, c) ==
    IF s # <<>> /\ s[Len(s)] = c THEN RStrip(SubSeq(s, 1, Len(s) - 1), c) ELSE s

\* s.find(c), 1-based; 0 when c does not occur
IndexOf(s, c) ==
    IF \E i \in 1..Len(s) : s[i] = c
    THEN CHOOSE i \in 1..Len(s) : s[i] = c /\ \A k \in 1..(i - 1) : s[k] # c
    ELSE 0

\* the first position >= from holding one of chars; Len(s) + 1 when none
FindAny(s, chars, from) ==
    IF \E i \in from..Len(s) : s[i] \in chars
    THEN CHOOSE i \in from..Len(s) :
            s[i] \in chars /\ \A k \in from..(i - 1) : s[k] \notin chars
    ELSE Len(s) + 1

UpperSeq == <<"A","B","C","D","E","F","G","H","I","J","K","L","M",
              "N","O","P","Q","R","S","T","U","V","W","X","Y","Z">>

LowerSeq == <<"a","b","c","d","e","f","g","h","i","j","k","l","m",
              "n","o","p","q","r","s","t","u","v","w","x","y","z">>

DigitChars == {"0","1","2","3","4","5","6","7","8","9"}

IsAlpha(c) == \E i \in 1..26 : UpperSeq[i] = c \/ LowerSeq[i] = c

LowerChar(c) ==
    IF \E i \in 1..26 : UpperSeq[i] = c
    THEN LowerSeq[CHOOSE i \in 1..26 : UpperSeq[i] = c]
    ELSE c

\* s.lower()
Lower(s) == [i \in 1..Len(s) |-> LowerChar(s[i])]

(***************************************************************************)
(* urllib.parse.urlparse, as far as the scraper reads its result: scheme,  *)
(* netloc, path (query and fragment are split off and dropped).  The       *)
(* ";params" split and the stripping of control characters are left out:   *)
(* no URL of the model holds those characters.                             *)
(***************************************************************************)
IsSchemeChar(c) == IsAlpha(c) \/ c \in DigitChars \/ c \in {"+", "-", "."}

\* the scheme, when the text before the first ":" is one, and what follows it
SplitScheme(url) ==
    LET i == IndexOf(url, ":")
    IN  IF /\ i > 1
           /\ IsAlpha(url[1])
           /\ \A k \in 1..(i - 1) : IsSchemeChar(url[k])
        THEN [scheme |-> Lower(SubSeq(url, 1, i - 1)), rest |-> SubSeq(url, i + 1, Len(url))]
        ELSE [scheme |-> <<>>, rest |-> url]

\* the netloc: after "//", up to the first of "/", "?", "#"
SplitNetloc(rest) ==
    IF StartsWith(rest, <<"/","/">>)
    THEN LET d == FindAny(rest, {"/", "?", "#"}, 3)
         IN  [netloc |-> SubSeq(rest, 3, d - 1), rest |-> SubSeq(rest, d, Len(rest))]
    ELSE [netloc |-> <<>>, rest |-> rest]

\* s.split(c, 1)
SplitAt(s, c) ==
    LET i == IndexOf(s, c)
    IN  IF i > 0
        THEN [head |-> SubSeq(s, 1, i - 1), tail |-> SubSeq(s, i + 1, Len(s))]
        ELSE [head |-> s, tail |-> <<>>]

\* urlsplit raises ValueError("Invalid IPv6 URL") for a netloc that holds one
\* of "[" and "]" without the other
InvalidNetloc(netloc) == (IndexOf(netloc, "[") > 0) # (IndexOf(netloc, "]") > 0)

urlparse_raises(url) == InvalidNetloc(SplitNetloc(SplitScheme(url).rest).netloc)

urlparse(url) ==
    LET s == SplitScheme(url)
        n == SplitNetloc(s.rest)
        f == SplitAt(n.rest, "#")
        q == SplitAt(f.head, "?")
    IN  [scheme |-> s.scheme, netloc |-> n.netloc, path |-> q.head,
         query |-> q.tail, fragment |-> f.tail]

(***************************************************************************)
(* urllib.parse.urljoin(base, url): a reference with a scheme of its own   *)
(* is returned as it is; a relative path replaces the last segment of the  *)
(* base path, empty segments in the middle are dropped and "." and ".."    *)
(* are resolved.                                                           *)
(***************************************************************************)
\* s.split(c)
RECURSIVE Split(_, _)
Split(s, c) ==
    IF IndexOf(s, c) = 0 THEN << s >>
    ELSE << SubSeq(s, 1, IndexOf(s, c) - 1) >>
         \o Split(SubSeq(s, IndexOf(s, c) + 1, Len(s)), c)

\* c.join(parts)
RECURSIVE Join(_, _)
Join(parts, c) ==
    IF parts = <<>> THEN <<>>
    ELSE IF Len(parts) = 1 THEN parts[1]
    ELSE parts[1] \o << c >> \o Join(Tail(parts), c)

NonEmpty(seg) == seg # <<>>

\* segments[1:-1] = filter(None, segments[1:-1])
DropEmptyMiddle(segments) ==
    IF Len(segments) <= 2 THEN segments
    ELSE << segments[1] >>
         \o SelectSeq(SubSeq(segments, 2, Len(segments) - 1), NonEmpty)
         \o << segments[Len(segments)] >>

\* the loop over the segments: ".." drops the segment before it, "." is dropped
RECURSIVE ResolveDots(_, _)
ResolveDots(segments, resolved) ==
    IF segments = <<>> THEN resolved
    ELSE IF Head(segments) = <<".", ".">>
         THEN ResolveDots(Tail(segments),
                          IF resolved = <<>> THEN resolved
                          ELSE SubSeq(resolved, 1, Len(resolved) - 1))
    ELSE IF Head(segments) = <<".">> THEN ResolveDots(Tail(segments), resolved)
    ELSE ResolveDots(Tail(segments), Append(resolved, Head(segments)))

\* the segments of the joined path
JoinSegments(bpath, path) ==
    IF StartsWith(path, <<"/">>) THEN Split(path, "/")
    ELSE DropEmptyMiddle(
            (IF Split(bpath, "/")[Len(Split(bpath, "/"))] # <<>>
             THEN SubSeq(Split(bpath, "/"), 1, Len(Split(bpath, "/")) - 1)
             ELSE Split(bpath, "/"))
            \o Split(path, "/"))

ResolvePath(segments) ==
    CHOOSE r \in { IF joined = <<>> THEN <<"/">> ELSE joined :
                     joined \in { Join(ResolveDots(segments, <<>>)
                                       \o (IF segments[Len(segments)] \in {<<".">>, <<".", ".">>}
                                           THEN << <<>> >> ELSE <<>>), "/") } } : TRUE

JoinParsed(b, u, base, url) ==
    LET path == IF u.path = <<>> THEN b.path
                ELSE ResolvePath(JoinSegments(b.path, u.path))
        query == IF u.path = <<>> /\ u.query = <<>> THEN b.query ELSE u.query
    IN  IF url = <<>> THEN base
        ELSE IF u.scheme # <<>> /\ u.scheme # b.scheme THEN url
        ELSE IF u.netloc # <<>>
             THEN b.scheme \o <<":","/","/">> \o u.netloc \o u.path
                  \o (IF u.query = <<>> THEN <<>> ELSE <<"?">> \o u.query)
                  \o (IF u.fragment = <<>> THEN <<>> ELSE <<"#">> \o u.fragment)
        ELSE b.scheme \o <<":","/","/">> \o b.netloc \o path
             \o (IF query = <<>> THEN <<>> ELSE <<"?">> \o query)
             \o (IF u.fragment = <<>> THEN <<>> ELSE <<"#">> \o u.fragment)

urljoin(base, url) ==
    CHOOSE r \in { JoinParsed(b, u, base, url) :
                     b \in {urlparse(base)}, u \in {urlparse(url)} } : TRUE

(***************************************************************************)
(* Constants of ITNBScraper.                                               *)
(***************************************************************************)
HTTPS == <<"h","t","t","p","s">>

HTTP == <<"h","t","t","p">>

SiteRoot == HTTPS \o <<":","/","/">> \o <<"w","w","w",".","i","t","n","b",".","c","h">>

BASE_URL == SiteRoot \o <<"/","e","n">>

SKIP_EXTENSIONS ==
    { <<".","p","d","f">>, <<".","d","o","c">>, <<".","d","o","c","x">>,
      <<".","x","l","s">>, <<".","x","l","s","x">>, <<".","z","i","p">>,
      <<".","p","n","g">>, <<".","j","p","g">>, <<".","j","p","e","g">>,
      <<".","g","i","f">>, <<".","s","v","g">> }

\* the first three of the thirteen seed URLs
SEED_URLS ==
    << SiteRoot \o <<"/","e","n">>,
       SiteRoot \o <<"/","e","n","/","a","b","o","u","t">>,
       SiteRoot \o <<"/","e","n","/","s","e","r","v","i","c","e","s">> >>

\* pages with fewer words are skipped
MIN_WORDS == 20

(***************************************************************************)
(* What a page's markdown holds, as far as the scraper reads it: the       *)
(* number of words of the cleaned content and the targets of its           *)
(* [text](target) links, in the order re.findall yields them.              *)
(***************************************************************************)
LinkA == <<"/","e","n","/","a">>

LinkASlashQuery == SiteRoot \o <<"/","e","n","/","a","/","?","x","=","1","#","f">>

LinkC == SiteRoot \o <<"/","e","n","/","c","/">>

LinkAbout == SiteRoot \o <<"/","e","n","/","a","b","o","u","t">>

LinkRelative == <<"b">>

LinkOther == HTTPS \o <<":","/","/">> \o <<"o","t","h","e","r",".","c","o","m">>
             \o <<"/","e","n","/","x">>

LinkDe == <<"/","d","e","/","h","o","m","e">>

LinkPdf == <<"/","e","n","/","f",".","p","d","f">>

LinkAnchor == <<"#","t","o","p">>

LinkJs == <<"j","a","v","a","s","c","r","i","p","t",":">> \o <<"x">>

\* a target whose host opens a bracket it does not close
LinkBadHost == HTTP \o <<":","/","/">> \o <<"[","x">>

\* the link lists a fetched page may hold
PageLinks ==
    { <<>>,
      <<LinkA, LinkC, LinkOther, LinkDe, LinkPdf>>,
      <<LinkASlashQuery, LinkAbout, LinkRelative, LinkAnchor, LinkJs, LinkA>>,
      <<LinkA, LinkBadHost>> }

\* len(content.split()) of a fetched page, after _clean_content
WordCounts == {0, MIN_WORDS - 1, MIN_WORDS}

(***************************************************************************)
(* State.                                                                  *)
(***************************************************************************)
VARIABLES
    \* ITNBScraper fields
    scraped_data,     \* list of documents
    visited_urls,     \* set of URL strings
    failed_urls,      \* list of {url, error}
    \* locals of crawl_website / scrape_page
    pc,               \* "idle", "loop", "fetch", "done", "raised"
    max_pages,
    urls_to_visit,    \* the queue
    cur,              \* the URL popped by the running iteration
    \* history
    fetched,          \* the urls crawler.arun was called with, in order
    thin,             \* urls of the pages skipped as too short
    first_run,        \* the running (or last) crawl_website call is the scraper's first
    enqueued          \* every URL put in the queue by the running call, in order

crawlVars == <<scraped_data, visited_urls, failed_urls, pc, max_pages,
               urls_to_visit, cur, fetched, thin, first_run, enqueued>>

VARIABLES
    \* GroundXIngestor fields
    stats,            \* {total, success, failed}
    results,          \* the per-document audit trail
    bucket_id,        \* 0 stands for None
    \* locals of ingest_from_json and main
    ipc,              \* where the ingestion run is
    documents,        \* the doc_ids of the list loaded from the JSON file
    idx,              \* the position of the for loop in documents
    exc,              \* the exception that ended the run, "none" when there is none
    \* the world
    remote_buckets,   \* the buckets of the remote service, in listing order
    temp_dir,         \* data/.ingest_temp exists
    temp_files,       \* the doc_ids that have a .txt file in it
    audit_log,        \* logs/ingestion_audit.json, "none" before it is written
    \* history
    run_log,          \* the position and outcome of each iteration of the running call
    reused,           \* the running (or last) ingest_from_json call is not the first
    result,           \* the audit record of the iteration that is running or ran last
    submitted         \* the positions handed to client.ingest by the running call

ingestVars == <<stats, results, bucket_id, ipc, documents, idx, exc,
                remote_buckets, temp_dir, temp_files, audit_log, run_log, reused,
                result, submitted>>

VARIABLES
    \* two crawls of one site, each by a process of its own
    site,             \* what each URL of the site returns when fetched
    twin_max_pages,   \* the max_pages both crawls are called with
    twin              \* the two crawls: queue, visited, docs, failed, fetched, pc

twinVars == <<site, twin_max_pages, twin>>

VARIABLES
    \* one [text](target) match going through _extract_links
    match,             \* the page URL and two targets that differ in slash, query, fragment
    match_out          \* what lines 85-102 and 191-193 computed for them, "none" before

urlVars == <<match, match_out>>

VARIABLES
    \* one page text going through _clean_content
    text_in,          \* the text, a sequence of fragments
    text_out          \* the results of cleaning it once and twice, <<>> before

textVars == <<text_in, text_out>>

VARIABLES
    \* callers of get_or_create_bucket on one remote service
    callers,          \* per caller: pc, the name asked for, the listing seen, the id returned
    shared_buckets    \* the buckets of the service they share, in listing order

raceVars == <<callers, shared_buckets>>

VARIABLES
    \* scrape_page coroutines running concurrently on one scraper
    tasks,            \* per coroutine: the url given, pc, whether it called crawler.arun, what it returned
    task_visited,     \* the visited_urls of the scraper they share
    task_failed,      \* its failed_urls
    \* history
    task_before,      \* visited_urls before the first coroutine started
    arun_calls        \* the urls crawler.arun was called with, in order

taskVars == <<tasks, task_visited, task_failed, task_before, arun_calls>>

otherThanCrawl == <<ingestVars, twinVars, urlVars, textVars, raceVars, taskVars>>

otherThanIngest == <<crawlVars, twinVars, urlVars, textVars, raceVars, taskVars>>

otherThanTwin == <<crawlVars, ingestVars, urlVars, textVars, raceVars, taskVars>>

otherThanUrl == <<crawlVars, ingestVars, twinVars, textVars, raceVars, taskVars>>

otherThanText == <<crawlVars, ingestVars, twinVars, urlVars, raceVars, taskVars>>

otherThanRace == <<crawlVars, ingestVars, twinVars, urlVars, textVars, taskVars>>

otherThanTask == <<crawlVars, ingestVars, twinVars, urlVars, textVars, raceVars>>

(***************************************************************************)
(* ITNBScraper._is_valid_url                                               *)
(***************************************************************************)
is_valid_url(url) ==
    LET parsed == urlparse(url)
        is_domain == Contains(parsed.netloc, <<"i","t","n","b",".","c","h">>)
        is_english == Contains(parsed.path, <<"/","e","n">>)
                      \/ parsed.path = <<"/","e","n">>
    IN  /\ is_domain
        /\ is_english
        /\ ~ \E ext \in SKIP_EXTENSIONS : EndsWith(Lower(parsed.path), ext)

(***************************************************************************)
(* ITNBScraper._extract_links: the loop body for one match, and the whole. *)
(***************************************************************************)
\* lines 88-93: the absolute URL of a link target
full_url(url, base_url) ==
    IF StartsWith(url, <<"/">>) THEN SiteRoot \o url
    ELSE IF StartsWith(url, HTTP) THEN url
    ELSE urljoin(base_url, url)

\* lines 96-97: scheme://netloc/path without trailing slashes
clean_url(full) ==
    LET parsed == urlparse(full)
    IN  RStrip(parsed.scheme \o <<":","/","/">> \o parsed.netloc \o parsed.path, "/")

\* lines 84-102: the matches that are not skipped at line 85 are made absolute,
\* cleaned and filtered; line 102 turns the list into a set
extract_links(links, base_url, visited) ==
    LET kept == { k \in 1..Len(links) :
                    /\ ~ StartsWith(links[k], <<"j","a","v","a","s","c","r","i","p","t",":">>)
                    /\ ~ StartsWith(links[k], <<"#">>) }
        cleaned == { clean_url(f) : f \in { full_url(links[k], base_url) : k \in kept } }
    IN  { c \in cleaned : is_valid_url(c) /\ c \notin visited }

\* lines 93 and 96: urljoin and urlparse are called outside any try block, so
\* the ValueError of a match with an invalid netloc leaves _extract_links
extract_links_raises(links, base_url) ==
    \E k \in 1..Len(links) :
        /\ ~ StartsWith(links[k], <<"j","a","v","a","s","c","r","i","p","t",":">>)
        /\ ~ StartsWith(links[k], <<"#">>)
        /\ \/ /\ ~ StartsWith(links[k], <<"/">>)
              /\ ~ StartsWith(links[k], HTTP)
              /\ urlparse_raises(links[k])
           \/ urlparse_raises(full_url(links[k], base_url))

\* list(set(links)): the set in an order the hash seed decides
Orderings(S) ==
    { f \in [1..Cardinality(S) -> S] : \A x \in S : \E i \in 1..Cardinality(S) : f[i] = x }

(***************************************************************************)
(* ITNBScraper.scrape_page                                                 *)
(***************************************************************************)
\* line 107
normalize(url) == RStrip(url, "/")

\* the membership test left out
AlreadyVisitedNever(url, visited) == FALSE

\* line 109
AlreadyVisited(url, visited) == url \in visited

\* the insert left out
MarkVisitedForgotten(visited, url) == visited

\* line 112
MarkVisited(visited, url) == visited \cup {url}

\* the failure is recorded nowhere
RecordFailureDropped(failed, url, error) == failed

\* the failure is recorded twice
RecordFailureTwice(failed, url, error) ==
    failed \o << [url |-> url, error |-> error], [url |-> url, error |-> error] >>

\* lines 126 and 151
RecordFailure(failed, url, error) == Append(failed, [url |-> url, error |-> error])

\* the threshold one word lower
IsThinOffByOne(words) == words < MIN_WORDS - 1

\* line 133
IsThin(words) == words < MIN_WORDS

\* lines 137-144 (doc_id, title and scraped_at are not read by the crawl)
MakeDoc(url, words, links) ==
    [url |-> url, word_count |-> words, content |-> links]

(***************************************************************************)
(* ITNBScraper.crawl_website                                               *)
(***************************************************************************)
\* the cap compared with <= instead of <
LoopCondOffByOne(queue, docs, cap) == queue # <<>> /\ Len(docs) <= cap

\* line 180
LoopCond(queue, docs, cap) == queue # <<>> /\ Len(docs) < cap

\* new links put at the front of the queue instead of its end
RECURSIVE EnqueueFront(_, _, _)
EnqueueFront(queue, new_links, visited) ==
    IF new_links = <<>> THEN queue
    ELSE LET link == Head(new_links)
         IN  EnqueueFront(IF link \notin visited /\ \A i \in 1..Len(queue) : queue[i] # link
                          THEN <<link>> \o queue ELSE queue,
                          Tail(new_links), visited)

\* the test "link not in urls_to_visit" left out
RECURSIVE EnqueueNoQueueCheck(_, _, _)
EnqueueNoQueueCheck(queue, new_links, visited) ==
    IF new_links = <<>> THEN queue
    ELSE EnqueueNoQueueCheck(IF Head(new_links) \notin visited
                             THEN Append(queue, Head(new_links)) ELSE queue,
                             Tail(new_links), visited)

\* lines 191-193
RECURSIVE Enqueue(_, _, _)
Enqueue(queue, new_links, visited) ==
    IF new_links = <<>> THEN queue
    ELSE LET link == Head(new_links)
         IN  Enqueue(IF link \notin visited /\ \A i \in 1..Len(queue) : queue[i] # link
                     THEN Append(queue, link) ELSE queue,
                     Tail(new_links), visited)

CrawlInit ==
    /\ scraped_data = <<>>
    /\ visited_urls = {}
    /\ failed_urls = <<>>
    /\ pc = "idle"
    /\ max_pages = 0
    /\ urls_to_visit = <<>>
    /\ cur = <<>>
    /\ fetched = <<>>
    /\ thin = {}
    /\ first_run = TRUE
    /\ enqueued = <<>>

\* crawl_website(max_pages) is called: lines 159-178
CrawlStart ==
    /\ pc \in {"idle", "done"}
    /\ \E mp \in (IF pc = "idle" THEN 0..MaxPages ELSE {max_pages}) : max_pages' = mp
    /\ urls_to_visit' = SEED_URLS
    /\ pc' = "loop"
    /\ first_run' = (pc = "idle")
    /\ enqueued' = SEED_URLS
    /\ UNCHANGED otherThanCrawl
    /\ UNCHANGED <<scraped_data, visited_urls, failed_urls, cur, fetched, thin>>

\* the loop condition fails: line 195
CrawlReturn ==
    /\ pc = "loop"
    /\ ~ LoopCond(urls_to_visit, scraped_data, max_pages)
    /\ pc' = "done"
    /\ UNCHANGED otherThanCrawl
    /\ UNCHANGED <<scraped_data, visited_urls, failed_urls, max_pages, urls_to_visit,
                   cur, fetched, thin, first_run, enqueued>>

\* lines 181-184 and 107-110: the popped URL was visited, scrape_page returns None
ScrapeSkip ==
    /\ pc = "loop"
    /\ LoopCond(urls_to_visit, scraped_data, max_pages)
    /\ AlreadyVisited(normalize(Head(urls_to_visit)), visited_urls)
    /\ urls_to_visit' = Tail(urls_to_visit)
    /\ cur' = Head(urls_to_visit)
    /\ UNCHANGED otherThanCrawl
    /\ UNCHANGED <<scraped_data, visited_urls, failed_urls, pc, max_pages, fetched,
                   thin, first_run, enqueued>>

\* lines 181-184 and 107-122: the popped URL is marked visited and fetched
ScrapeFetch ==
    /\ pc = "loop"
    /\ LoopCond(urls_to_visit, scraped_data, max_pages)
    /\ ~ AlreadyVisited(normalize(Head(urls_to_visit)), visited_urls)
    /\ urls_to_visit' = Tail(urls_to_visit)
    /\ cur' = Head(urls_to_visit)
    /\ visited_urls' = MarkVisited(visited_urls, normalize(Head(urls_to_visit)))
    /\ fetched' = Append(fetched, normalize(Head(urls_to_visit)))
    /\ pc' = "fetch"
    /\ UNCHANGED otherThanCrawl
    /\ UNCHANGED <<scraped_data, failed_urls, max_pages, thin, first_run, enqueued>>

\* lines 124-127: result.success is false
FetchFailed ==
    /\ pc = "fetch"
    /\ failed_urls' = RecordFailure(failed_urls, normalize(cur), "error_message")
    /\ pc' = "loop"
    /\ UNCHANGED otherThanCrawl
    /\ UNCHANGED <<scraped_data, visited_urls, max_pages, urls_to_visit, cur, fetched,
                   thin, first_run, enqueued>>

\* lines 149-152: crawler.arun (or the code after it) raises
FetchRaised ==
    /\ pc = "fetch"
    /\ failed_urls' = RecordFailure(failed_urls, normalize(cur), "exception")
    /\ pc' = "loop"
    /\ UNCHANGED otherThanCrawl
    /\ UNCHANGED <<scraped_data, visited_urls, max_pages, urls_to_visit, cur, fetched,
                   thin, first_run, enqueued>>

\* lines 129-135: the cleaned content is too short
FetchThin ==
    /\ pc = "fetch"
    /\ \E w \in WordCounts : IsThin(w)
    /\ thin' = thin \cup {normalize(cur)}
    /\ pc' = "loop"
    /\ UNCHANGED otherThanCrawl
    /\ UNCHANGED <<scraped_data, visited_urls, failed_urls, max_pages, urls_to_visit,
                   cur, fetched, first_run, enqueued>>

\* lines 137-147 and 186-193: a document is stored and its links are queued
FetchDoc ==
    /\ pc = "fetch"
    /\ \E w \in WordCounts, links \in PageLinks :
          /\ ~ IsThin(w)
          /\ ~ extract_links_raises(links, cur)
          /\ scraped_data' = Append(scraped_data, MakeDoc(normalize(cur), w, links))
          /\ \E new_links \in Orderings(extract_links(links, cur, visited_urls)) :
                urls_to_visit' = Enqueue(urls_to_visit, new_links, visited_urls)
    /\ enqueued' = enqueued \o SubSeq(urls_to_visit', Len(urls_to_visit) + 1,
                                      Len(urls_to_visit'))
    /\ pc' = "loop"
    /\ UNCHANGED otherThanCrawl
    /\ UNCHANGED <<visited_urls, failed_urls, max_pages, cur, fetched, thin, first_run>>

\* lines 137-147 and 186-190: the document is stored, then _extract_links
\* raises and the exception leaves crawl_website (main logs it and re-raises)
ExtractRaised ==
    /\ pc = "fetch"
    /\ \E w \in WordCounts, links \in PageLinks :
          /\ ~ IsThin(w)
          /\ extract_links_raises(links, cur)
          /\ scraped_data' = Append(scraped_data, MakeDoc(normalize(cur), w, links))
    /\ pc' = "raised"
    /\ UNCHANGED otherThanCrawl
    /\ UNCHANGED <<visited_urls, failed_urls, max_pages, urls_to_visit, cur, fetched,
                   thin, first_run, enqueued>>

CrawlNext ==
    \/ CrawlStart
    \/ CrawlReturn
    \/ ScrapeSkip
    \/ ScrapeFetch
    \/ FetchFailed
    \/ FetchRaised
    \/ FetchThin
    \/ FetchDoc
    \/ ExtractRaised

(***************************************************************************)
(* GroundXIngestor (src/src/ingest.py).                                    *)
(***************************************************************************)
\* a run loads at most MaxDocs documents
MaxDocs == 2
\* calls are made on one ingestor while its audit trail stays within MaxRecords
MaxRecords == 3

DocIds == {"d1", "d2"}

\* data.get("documents", []): the doc_ids of the loaded list, in order
DocLists == UNION { [1..n -> DocIds] : n \in 0..MaxDocs }

\* the default bucket_name of get_or_create_bucket
BucketName == "itnb-website-content"

\* what buckets.list() may hold when the ingestor is constructed
BucketWorlds ==
    { <<>>,
      << [bucket_id |-> 1, name |-> "other"] >>,
      << [bucket_id |-> 1, name |-> "other"], [bucket_id |-> 2, name |-> BucketName] >>,
      << [bucket_id |-> 1, name |-> BucketName], [bucket_id |-> 2, name |-> BucketName] >> }

\* how one iteration of the document loop can go:
\*   "ok"           client.ingest returns a response with .ingest set
\*   "empty"        it returns nothing, or a response without .ingest
\*   "ingest_raise" it raises
\*   "open_raise"   opening the temp file raises, before anything is submitted
Outcomes == {"ok", "empty", "ingest_raise", "open_raise"}

\* the last bucket of that name instead of the first
FindBucketLast(buckets, name) ==
    IF \E i \in 1..Len(buckets) : buckets[i].name = name
    THEN buckets[CHOOSE i \in 1..Len(buckets) :
                   /\ buckets[i].name = name
                   /\ \A k \in (i + 1)..Len(buckets) : buckets[k].name # name].bucket_id
    ELSE 0

\* lines 42-45: the id of the first bucket with that name, 0 when there is none
FindBucket(buckets, name) ==
    IF \E i \in 1..Len(buckets) : buckets[i].name = name
    THEN buckets[CHOOSE i \in 1..Len(buckets) :
                   /\ buckets[i].name = name
                   /\ \A k \in 1..(i - 1) : buckets[k].name # name].bucket_id
    ELSE 0

\* the exception handler logs and goes on with no bucket
BucketErrorSwallowed == "loop"

\* lines 51-53: the exception of a bucket operation is logged and raised again;
\* nothing between there and main catches it, and main raises it again (224-227)
BucketErrorPc == "raised"

\* before the first iteration there is no record
NoResult == [doc_id |-> "none", status |-> "none", error |-> "None"]

\* lines 93-99: the record as the iteration creates it
PendingResult(doc_id) == [doc_id |-> doc_id, status |-> "pending", error |-> "None"]

\* the empty response leaves the record as it was created
MakeResultPendingOnEmpty(doc_id, outcome) ==
    [doc_id |-> doc_id,
     status |-> IF outcome = "ok" THEN "success"
                ELSE IF outcome = "empty" THEN "pending" ELSE "failed",
     error  |-> IF outcome = "ok" THEN "None" ELSE "str(e)"]

\* lines 93-99 and 128-143: the audit record of one attempt when it is appended
MakeResult(doc_id, outcome) ==
    [doc_id |-> doc_id,
     status |-> IF outcome = "ok" THEN "success" ELSE "failed",
     error  |-> CASE outcome = "ok" -> "None"
                  [] outcome = "empty" -> "No response from API"
                  [] outcome \in {"ingest_raise", "wait_raise"} -> "str(e) of client.ingest"
                  [] outcome = "open_raise" -> "str(e) of open"]

\* only successes are put on the audit trail
RecordOutcomeSuccessOnly(trail, doc_id, outcome) ==
    IF outcome = "ok" THEN Append(trail, MakeResult(doc_id, outcome)) ELSE trail

\* line 145: the record is appended whatever the outcome
RecordOutcome(trail, doc_id, outcome) == Append(trail, MakeResult(doc_id, outcome))

\* an exception of client.ingest counted under success
CountOutcomeRaiseAsSuccess(st, outcome) ==
    IF outcome \in {"ok", "ingest_raise"} THEN [st EXCEPT !.success = @ + 1]
    ELSE [st EXCEPT !.failed = @ + 1]

\* the empty response is not counted
CountOutcomeMissesEmpty(st, outcome) ==
    IF outcome = "ok" THEN [st EXCEPT !.success = @ + 1]
    ELSE IF outcome = "empty" THEN st
    ELSE [st EXCEPT !.failed = @ + 1]

\* lines 131, 136, 142
CountOutcome(st, outcome) ==
    IF outcome = "ok" THEN [st EXCEPT !.success = @ + 1]
    ELSE [st EXCEPT !.failed = @ + 1]

\* lines 103-107: the temp file exists once open() has succeeded
FilesAfterWrite(files, doc_id, outcome) ==
    IF outcome = "open_raise" THEN files ELSE files \cup {doc_id}

\* lines 123-126 are reached unless open() raised: the position is handed to
\* client.ingest
SubmittedAfter(sub, i, outcome) ==
    IF outcome = "open_raise" THEN sub ELSE Append(sub, i)

\* the document after a failed one is skipped
LoopNextSkipsAfterFailure(i, n, outcome) == IF outcome = "ok" THEN i + 1 ELSE i + 2

\* a failed document ends the loop
LoopNextBreakOnFailure(i, n, outcome) == IF outcome = "ok" THEN i + 1 ELSE n + 1

\* lines 87 and 139-146: the for loop goes to the next document whatever the outcome
LoopNext(i, n, outcome) == i + 1

IngestInit ==
    /\ stats = [total |-> 0, success |-> 0, failed |-> 0]
    /\ results = <<>>
    /\ bucket_id = 0
    /\ ipc = "start"
    /\ documents = <<>>
    /\ idx = 1
    /\ exc = "none"
    /\ remote_buckets = <<>>
    /\ temp_dir = FALSE
    /\ temp_files = {}
    /\ audit_log = "none"
    /\ run_log = <<>>
    /\ reused = FALSE
    /\ result = NoResult
    /\ submitted = <<>>

\* main, line 217, and __init__, lines 26-37: with no API key ValueError is raised,
\* which main logs and raises again
Construct ==
    /\ ipc = "start"
    /\ \E has_key \in BOOLEAN :
          IF has_key
          THEN /\ ipc' = "constructed"
               /\ exc' = exc
          ELSE /\ ipc' = "raised"
               /\ exc' = "ValueError: Missing GROUNDX_API_KEY"
    /\ remote_buckets' \in BucketWorlds
    /\ UNCHANGED <<stats, results, bucket_id, documents, idx, temp_dir, temp_files,
                   audit_log, run_log, reused, result, submitted>>
    /\ UNCHANGED otherThanIngest

\* ingest_from_json is called, lines 60-71: by main, or again by a caller that
\* holds the ingestor after a call has returned.  A missing file raises
\* FileNotFoundError, which main reports without raising (221-223); the file,
\* when it exists, is taken to hold a JSON object.
IngestCall ==
    /\ ipc \in {"constructed", "returned"}
    /\ reused' = (ipc = "returned")
    /\ \E file \in {"missing", "ok"} :
          \/ /\ file = "missing"
             /\ ipc' = "nofile"
             /\ exc' = "FileNotFoundError"
             /\ UNCHANGED <<stats, documents, idx, run_log, submitted>>
          \/ /\ file = "ok"
             /\ \E docs \in DocLists :
                   /\ Len(results) + Len(docs) <= MaxRecords
                   /\ documents' = docs
                   /\ stats' = [stats EXCEPT !.total = Len(docs)]
             /\ idx' = 1
             /\ run_log' = <<>>
             /\ submitted' = <<>>
             /\ ipc' = "list"
             /\ exc' = exc
    /\ UNCHANGED <<results, bucket_id, remote_buckets, temp_dir, temp_files, audit_log,
                   result>>
    /\ UNCHANGED otherThanIngest

\* get_or_create_bucket, lines 41-45 and 51-53, then lines 73-77
BucketList ==
    /\ ipc = "list"
    /\ \/ /\ ipc' = BucketErrorPc
          /\ exc' = "buckets.list failed"
          /\ UNCHANGED <<bucket_id, temp_dir>>
       \/ /\ FindBucket(remote_buckets, BucketName) # 0
          /\ bucket_id' = FindBucket(remote_buckets, BucketName)
          /\ temp_dir' = TRUE
          /\ ipc' = "loop"
          /\ exc' = exc
       \/ /\ FindBucket(remote_buckets, BucketName) = 0
          /\ ipc' = "create"
          /\ UNCHANGED <<bucket_id, temp_dir, exc>>
    /\ UNCHANGED <<stats, results, documents, idx, remote_buckets, temp_files,
                   audit_log, run_log, reused, result, submitted>>
    /\ UNCHANGED otherThanIngest

\* get_or_create_bucket, lines 47-53, then lines 73-77
BucketCreate ==
    /\ ipc = "create"
    /\ \/ /\ ipc' = BucketErrorPc
          /\ exc' = "buckets.create failed"
          /\ UNCHANGED <<bucket_id, temp_dir, remote_buckets>>
       \/ /\ remote_buckets' = Append(remote_buckets,
                [bucket_id |-> Len(remote_buckets) + 1, name |-> BucketName])
          /\ bucket_id' = Len(remote_buckets) + 1
          /\ temp_dir' = TRUE
          /\ ipc' = "loop"
          /\ exc' = exc
    /\ UNCHANGED <<stats, results, documents, idx, temp_files, audit_log, run_log, reused,
                   result, submitted>>
    /\ UNCHANGED otherThanIngest

\* the document loop takes the next document, lines 87-99
IngestBegin ==
    /\ ipc = "loop"
    /\ idx <= Len(documents)
    /\ result' = PendingResult(documents[idx])
    /\ ipc' = "doc"
    /\ UNCHANGED <<stats, results, bucket_id, documents, idx, exc, remote_buckets,
                   temp_dir, temp_files, audit_log, run_log, reused, submitted>>
    /\ UNCHANGED otherThanIngest

\* the rest of the iteration, lines 101-149
IngestDoc ==
    /\ ipc = "doc"
    /\ \E outcome \in Outcomes :
          /\ temp_files' = FilesAfterWrite(temp_files, documents[idx], outcome)
          /\ submitted' = SubmittedAfter(submitted, idx, outcome)
          /\ stats' = CountOutcome(stats, outcome)
          /\ result' = MakeResult(documents[idx], outcome)
          /\ results' = RecordOutcome(results, documents[idx], outcome)
          /\ run_log' = Append(run_log, [pos |-> idx, outcome |-> outcome])
          /\ idx' = LoopNext(idx, Len(documents), outcome)
    /\ ipc' = "loop"
    /\ UNCHANGED <<bucket_id, documents, exc, remote_buckets, temp_dir,
                   audit_log, reused>>
    /\ UNCHANGED otherThanIngest

\* lines 103-126 when the remote service never reports a final status.  The
\* call passes wait_for_complete=True and no timeout, and the code has no wait of
\* its own: either the call never returns, or the client library gives up and
\* raises, which lines 139-143 record like any other exception.
IngestWaitForever ==
    /\ ipc = "doc"
    /\ temp_files' = FilesAfterWrite(temp_files, documents[idx], "wait_raise")
    /\ submitted' = SubmittedAfter(submitted, idx, "wait_raise")
    /\ \/ /\ ipc' = "blocked"
          /\ UNCHANGED <<stats, results, run_log, idx, result>>
       \/ /\ ipc' = "loop"
          /\ stats' = CountOutcome(stats, "wait_raise")
          /\ result' = MakeResult(documents[idx], "wait_raise")
          /\ results' = RecordOutcome(results, documents[idx], "wait_raise")
          /\ run_log' = Append(run_log, [pos |-> idx, outcome |-> "wait_raise"])
          /\ idx' = LoopNext(idx, Len(documents), "wait_raise")
    /\ UNCHANGED <<bucket_id, documents, exc, remote_buckets, temp_dir, audit_log, reused>>
    /\ UNCHANGED otherThanIngest

\* lines 151-154: the temp files and the temp directory are removed
Cleanup ==
    /\ ipc = "loop"
    /\ idx > Len(documents)
    /\ temp_files' = {}
    /\ temp_dir' = FALSE
    /\ ipc' = "save"
    /\ UNCHANGED <<stats, results, bucket_id, documents, idx, exc, remote_buckets,
                   audit_log, run_log, reused, result, submitted>>
    /\ UNCHANGED otherThanIngest

\* lines 156-159 and _save_audit_log, lines 161-176
SaveAndReturn ==
    /\ ipc = "save"
    /\ audit_log' = [bucket_id |-> bucket_id, stats |-> stats, documents |-> results]
    /\ ipc' = "returned"
    /\ UNCHANGED <<stats, results, bucket_id, documents, idx, exc, remote_buckets,
                   temp_dir, temp_files, run_log, reused, result, submitted>>
    /\ UNCHANGED otherThanIngest

\* main, line 219: print_summary, after which main returns
PrintSummary ==
    /\ ipc = "returned"
    /\ ipc' = "summary"
    /\ UNCHANGED <<stats, results, bucket_id, documents, idx, exc, remote_buckets,
                   temp_dir, temp_files, audit_log, run_log, reused, result, submitted>>
    /\ UNCHANGED otherThanIngest

IngestNext ==
    \/ Construct
    \/ IngestCall
    \/ BucketList
    \/ BucketCreate
    \/ IngestBegin
    \/ IngestDoc
    \/ IngestWaitForever
    \/ Cleanup
    \/ SaveAndReturn
    \/ PrintSummary

(***************************************************************************)
(* Two crawls of the same site: crawl_website(max_pages) called by two      *)
(* processes, each on a scraper of its own, the second after the first has *)
(* ended.  The site answers a URL the same way in both.                    *)
(***************************************************************************)
PageFailed == [kind |-> "failed", words |-> 0, links |-> <<>>]

PageThin == [kind |-> "page", words |-> MIN_WORDS - 1, links |-> <<>>]

PageLeaf == [kind |-> "page", words |-> MIN_WORDS, links |-> <<>>]

PageHub == [kind |-> "page", words |-> MIN_WORDS,
            links |-> <<LinkA, LinkC, LinkOther, LinkDe, LinkPdf>>]

\* the URLs a crawl of such a site can reach
SiteUrls ==
    { SEED_URLS[i] : i \in 1..Len(SEED_URLS) }
        \cup { SiteRoot \o <<"/","e","n","/","a">>, SiteRoot \o <<"/","e","n","/","c">> }

SeedSet == { SEED_URLS[i] : i \in 1..Len(SEED_URLS) }

\* a seed fails, is thin, or is a page with or without links; a linked page
\* fails or is a page without links
Sites ==
    { s \in [SiteUrls -> {PageFailed, PageThin, PageLeaf, PageHub}] :
        \A u \in SiteUrls \ SeedSet : s[u] \in {PageFailed, PageLeaf} }

\* ITNBScraper() and the locals of crawl_website at line 164
FreshRun ==
    [queue |-> SEED_URLS, visited |-> {}, docs |-> <<>>, failed |-> <<>>,
     fetched |-> <<>>, pc |-> "loop"]

\* scrape_page, lines 107-152, on the popped url, for what the site returns
RunAfterScrape(run, url, page) ==
    IF AlreadyVisited(normalize(url), run.visited)
    THEN [run EXCEPT !.queue = Tail(run.queue)]
    ELSE [run EXCEPT
            !.queue = Tail(run.queue),
            !.visited = MarkVisited(run.visited, normalize(url)),
            !.fetched = Append(run.fetched, normalize(url)),
            !.failed = IF page.kind = "failed"
                       THEN RecordFailure(run.failed, normalize(url), "error_message")
                       ELSE run.failed,
            !.docs = IF page.kind = "page" /\ ~ IsThin(page.words)
                     THEN Append(run.docs, MakeDoc(normalize(url), page.words, page.links))
                     ELSE run.docs]

\* scrape_page returned a document
StoredDoc(run, url, page) ==
    /\ ~ AlreadyVisited(normalize(url), run.visited)
    /\ page.kind = "page"
    /\ ~ IsThin(page.words)

\* lines 181-193: one iteration of the while loop; new_links is what
\* _extract_links returned
RunAfterIteration(run, url, page, new_links) ==
    CHOOSE r \in { [after EXCEPT !.queue = Enqueue(after.queue, new_links, after.visited)] :
                     after \in {RunAfterScrape(run, url, page)} } : TRUE

\* the lists _extract_links can return at line 190
NewLinkLists(run, url, page) ==
    IF StoredDoc(run, url, page)
    THEN Orderings(extract_links(page.links, url, MarkVisited(run.visited, normalize(url))))
    ELSE { <<>> }

TwinIdle ==
    /\ site = <<>>
    /\ twin_max_pages = 0
    /\ twin = <<>>

TwinInit ==
    /\ site \in Sites
    /\ twin_max_pages \in 1..MaxPages
    /\ twin = <<FreshRun, FreshRun>>

\* the crawl that is running: the second starts when the first has returned
Running(r) ==
    /\ Len(twin) = 2
    /\ twin[r].pc = "loop"
    /\ r = 2 => twin[1].pc = "done"

\* lines 180-193
TwinIterate ==
    /\ \E r \in 1..2 :
          /\ Running(r)
          /\ LoopCond(twin[r].queue, twin[r].docs, twin_max_pages)
          /\ \E new_links \in NewLinkLists(twin[r], Head(twin[r].queue),
                                           site[normalize(Head(twin[r].queue))]) :
                twin' = [twin EXCEPT ![r] =
                            RunAfterIteration(twin[r], Head(twin[r].queue),
                                              site[normalize(Head(twin[r].queue))],
                                              new_links)]
    /\ UNCHANGED <<site, twin_max_pages>>
    /\ UNCHANGED otherThanTwin

\* line 195
TwinReturn ==
    /\ \E r \in 1..2 :
          /\ Running(r)
          /\ ~ LoopCond(twin[r].queue, twin[r].docs, twin_max_pages)
          /\ twin' = [twin EXCEPT ![r].pc = "done"]
    /\ UNCHANGED <<site, twin_max_pages>>
    /\ UNCHANGED otherThanTwin

TwinNext ==
    \/ TwinIterate
    \/ TwinReturn

(***************************************************************************)
(* One link target going through _extract_links and the enqueue loop:      *)
(* a page at match.base holds [text](match.t1), and match.t2 is the same      *)
(* target written with another trailing slash, query or fragment.          *)
(***************************************************************************)
\* the pages the link is found on
LinkBases == { SEED_URLS[1], SEED_URLS[2] }

\* link targets: root-relative, absolute, relative, relative with a name that
\* starts with "http", another host, a host that holds the domain's name, paths
\* outside /en with and without "/en" in them, a skipped extension, and the
\* two prefixes line 85 skips
LinkStems ==
    { LinkA,
      SiteRoot \o <<"/","e","n","/","c">>,
      LinkRelative,
      <<"h","t","t","p","s","-","g","u","i","d","e">>,
      LinkOther,
      HTTPS \o <<":","/","/">> \o <<"i","t","n","b",".","c","h",".","e","v","i","l",".","i","o">>
            \o <<"/","e","n","/","x">>,
      LinkDe,
      <<"/","d","e","/","e","n","v","i","r","o","n","m","e","n","t">>,
      LinkPdf,
      LinkAnchor,
      LinkJs }

\* what two spellings of one target differ in
LinkVariants ==
    { <<>>, <<"/">>, <<"?","x","=","1">>, <<"#","f">>, <<"/","?","x","=","1","#","f">> }

\* line 85
LinkSkipped(url) ==
    \/ StartsWith(url, <<"j","a","v","a","s","c","r","i","p","t",":">>)
    \/ StartsWith(url, <<"#">>)

\* lines 88-97: the key a link target is queued under
canon(url, base_url) == clean_url(full_url(url, base_url))

\* lines 99-100 with nothing visited, then lines 191-193 on an empty queue
QueueAfter(clean) ==
    CHOOSE q \in { Enqueue(<<>>, new_links, {}) :
                     new_links \in Orderings(IF is_valid_url(clean) THEN {clean} ELSE {}) } : TRUE

LinkRaw ==
    [stage |-> "raw", skipped |-> FALSE, c1 |-> <<>>, c2 |-> <<>>, again |-> <<>>,
     valid |-> FALSE, queue |-> <<>>]

UrlIdle ==
    /\ match = [base |-> <<>>, t1 |-> <<>>, t2 |-> <<>>]
    /\ match_out = LinkRaw

UrlInit ==
    /\ \E b \in LinkBases, stem \in LinkStems, v1, v2 \in LinkVariants :
          match = [base |-> b, t1 |-> stem \o v1, t2 |-> stem \o v2]
    /\ match_out = LinkRaw

\* lines 85-97 for both spellings
Canonicalize ==
    /\ match.base # <<>>
    /\ match_out.stage = "raw"
    /\ match_out' =
          IF LinkSkipped(match.t1)
          THEN [match_out EXCEPT !.stage = "skipped", !.skipped = TRUE]
          ELSE [match_out EXCEPT !.stage = "clean",
                                !.c1 = canon(match.t1, match.base),
                                !.c2 = canon(match.t2, match.base)]
    /\ UNCHANGED match
    /\ UNCHANGED otherThanUrl

\* lines 85-97 for a link whose target is the cleaned URL itself
CanonicalizeAgain ==
    /\ match_out.stage = "clean"
    /\ ~ LinkSkipped(match_out.c1)
    /\ match_out' = [match_out EXCEPT !.stage = "again",
                                    !.again = canon(match_out.c1, match.base)]
    /\ UNCHANGED match
    /\ UNCHANGED otherThanUrl

\* lines 99-102 and 191-193
FilterLink ==
    /\ match_out.stage = "again"
    /\ match_out' = [match_out EXCEPT !.stage = "filtered",
                                    !.valid = is_valid_url(match_out.c1),
                                    !.queue = QueueAfter(match_out.c1)]
    /\ UNCHANGED match
    /\ UNCHANGED otherThanUrl

UrlNext ==
    \/ Canonicalize
    \/ CanonicalizeAgain
    \/ FilterLink

(***************************************************************************)
(* ITNBScraper._clean_content.  A text is a sequence of fragments: the     *)
(* pieces the two patterns are made of, a newline and a piece of other     *)
(* text.  No fragment starts or ends with white space, and a pattern       *)
(* matches only where the fragments that spell it stand side by side.      *)
(***************************************************************************)
MaxText == 4

\* "How you want to deal with cookies" is BannerHead followed by BannerTail
BannerHead == "How you want to deal with coo"

BannerTail == "kies"

ManageCookies == "Manage Cookies"

AllowAll == "Allow All"

Newline == "\n"

OtherText == "text"

Fragments == {BannerHead, BannerTail, ManageCookies, AllowAll, Newline, OtherText}

Texts == UNION { [1..n -> Fragments] : n \in 0..MaxText }

MinOf(S) == CHOOSE x \in S : \A y \in S : x <= y

\* the end of a match whose last fragment is at j: "\n?" takes one newline
MatchEnd(s, j) == IF j < Len(s) /\ s[j + 1] = Newline THEN j + 1 ELSE j

\* line 69 in re.sub: every leftmost match of
\* 'How you want to deal with cookies.*?Allow All\n?' is removed, the scan going
\* on after the match
RECURSIVE SubBanner(_)
SubBanner(s) ==
    LET starts == { i \in 1..(Len(s) - 1) :
                      /\ s[i] = BannerHead
                      /\ s[i + 1] = BannerTail
                      /\ \E j \in (i + 2)..Len(s) : s[j] = AllowAll }
    IN  IF starts = {} THEN s
        ELSE SubSeq(s, 1, MinOf(starts) - 1)
             \o SubBanner(SubSeq(s,
                    MatchEnd(s, MinOf({ j \in (MinOf(starts) + 2)..Len(s) : s[j] = AllowAll })) + 1,
                    Len(s)))

\* line 70 in re.sub: 'Manage CookiesAllow All\n?'
RECURSIVE SubManage(_)
SubManage(s) ==
    LET starts == { i \in 1..(Len(s) - 1) : s[i] = ManageCookies /\ s[i + 1] = AllowAll }
    IN  IF starts = {} THEN s
        ELSE SubSeq(s, 1, MinOf(starts) - 1)
             \o SubManage(SubSeq(s, MatchEnd(s, MinOf(starts) + 1) + 1, Len(s)))

\* the number of newlines s starts with
RECURSIVE LeadingNewlines(_)
LeadingNewlines(s) ==
    IF s # <<>> /\ Head(s) = Newline THEN 1 + LeadingNewlines(Tail(s)) ELSE 0

\* line 77: re.sub(r'\n{3,}', '\n\n', cleaned)
RECURSIVE CollapseNewlines(_)
CollapseNewlines(s) ==
    IF s = <<>> THEN <<>>
    ELSE IF LeadingNewlines(s) >= 3
         THEN <<Newline, Newline>>
              \o CollapseNewlines(SubSeq(s, LeadingNewlines(s) + 1, Len(s)))
         ELSE <<Head(s)>> \o CollapseNewlines(Tail(s))

\* line 77: .strip()
RECURSIVE Strip(_)
Strip(s) ==
    IF s = <<>> THEN s
    ELSE IF Head(s) = Newline THEN Strip(Tail(s))
    ELSE IF s[Len(s)] = Newline THEN Strip(SubSeq(s, 1, Len(s) - 1))
    ELSE s

\* lines 73-77
clean_content(content) == Strip(CollapseNewlines(SubManage(SubBanner(content))))

TextIdle ==
    /\ text_in = <<>>
    /\ text_out = <<>>

TextInit ==
    /\ text_in \in Texts
    /\ text_out = <<>>

\* scrape_page, line 130
CleanContent ==
    /\ text_out = <<>>
    /\ text_out' = << clean_content(text_in) >>
    /\ UNCHANGED text_in
    /\ UNCHANGED otherThanText

\* _clean_content on a text that it returned
CleanAgain ==
    /\ Len(text_out) = 1
    /\ text_out' = Append(text_out, clean_content(text_out[1]))
    /\ UNCHANGED text_in
    /\ UNCHANGED otherThanText

TextNext ==
    \/ CleanContent
    \/ CleanAgain

(***************************************************************************)
(* get_or_create_bucket called by two callers against one remote service. *)
(* Each call is two requests, buckets.list and buckets.create, and the     *)
(* other caller's requests may come between them.                          *)
(***************************************************************************)
Callers == {"c1", "c2"}

\* the bucket_name argument of a call
CallNames == {BucketName, "other"}

NotCalled(name) ==
    [pc |-> "start", name |-> name, seen |-> <<>>, bucket_id |-> 0, created |-> FALSE]

RaceIdle ==
    /\ callers = <<>>
    /\ shared_buckets = <<>>

RaceInit ==
    /\ \E names \in [Callers -> CallNames] :
          callers = [c \in Callers |-> NotCalled(names[c])]
    /\ shared_buckets \in BucketWorlds

\* lines 41-45 and 51-53: buckets.list and the loop over what it returned
RaceList ==
    /\ \E c \in DOMAIN callers :
          /\ callers[c].pc = "start"
          /\ \/ callers' = [callers EXCEPT ![c].pc = "raised"]
             \/ callers' = [callers EXCEPT
                   ![c].seen = shared_buckets,
                   ![c].bucket_id = FindBucket(shared_buckets, callers[c].name),
                   ![c].pc = IF FindBucket(shared_buckets, callers[c].name) # 0
                             THEN "done" ELSE "create"]
    /\ UNCHANGED shared_buckets
    /\ UNCHANGED otherThanRace

\* lines 47-53: buckets.create
RaceCreate ==
    /\ \E c \in DOMAIN callers :
          /\ callers[c].pc = "create"
          /\ \/ /\ callers' = [callers EXCEPT ![c].pc = "raised"]
                /\ UNCHANGED shared_buckets
             \/ /\ shared_buckets' = Append(shared_buckets,
                      [bucket_id |-> Len(shared_buckets) + 1, name |-> callers[c].name])
                /\ callers' = [callers EXCEPT
                      ![c].bucket_id = Len(shared_buckets) + 1,
                      ![c].created = TRUE,
                      ![c].pc = "done"]
    /\ UNCHANGED otherThanRace

RaceNext ==
    \/ RaceList
    \/ RaceCreate

(***************************************************************************)
(* Several scrape_page coroutines on one scraper, as asyncio runs them:     *)
(* one at a time, switching only where a coroutine awaits.  scrape_page     *)
(* has one await, crawler.arun at line 122; lines 107-112 before it and     *)
(* lines 124-152 after it each run without interruption.                    *)
(***************************************************************************)
Tasks == {"t1", "t2", "t3"}

\* the urls the coroutines are given: two spellings of one page, and another page
TaskUrls == { SEED_URLS[2], SEED_URLS[2] \o <<"/">>, SEED_URLS[3] }

\* what crawler.arun and lines 124-147 make of a fetch
FetchOutcomes == {"failed", "raised", "thin", "doc"}

\* the membership test kept, the insert moved behind the await
EnterScrapePageInsertLate(visited, url) ==
    [visited |-> visited, fetches |-> ~ AlreadyVisited(normalize(url), visited)]

\* lines 107-112: the url is normalized, tested and inserted
EnterScrapePage(visited, url) ==
    IF AlreadyVisited(normalize(url), visited)
    THEN [visited |-> visited, fetches |-> FALSE]
    ELSE [visited |-> MarkVisited(visited, normalize(url)), fetches |-> TRUE]

NewTask(url) == [url |-> url, pc |-> "new", fetched |-> FALSE, returned |-> "nothing"]

TaskIdle ==
    /\ tasks = [t \in Tasks |-> NewTask(<<>>)]
    /\ task_visited = {}
    /\ task_failed = <<>>
    /\ task_before = {}
    /\ arun_calls = <<>>

\* the coroutines are created, on a fresh scraper or one that visited a page
TaskInit ==
    /\ tasks \in { [t \in Tasks |-> NewTask(given[t])] : given \in [Tasks -> TaskUrls] }
    /\ task_visited \in { {}, {SEED_URLS[3]} }
    /\ task_failed = <<>>
    /\ task_before = task_visited
    /\ arun_calls = <<>>

\* lines 107-110: a coroutine starts and finds its url visited
TaskSkip ==
    \E t \in Tasks :
        /\ tasks[t].pc = "new"
        /\ ~ EnterScrapePage(task_visited, tasks[t].url).fetches
        /\ task_visited' = EnterScrapePage(task_visited, tasks[t].url).visited
        /\ tasks' = [tasks EXCEPT ![t].pc = "done", ![t].returned = "None"]
        /\ UNCHANGED otherThanTask
        /\ UNCHANGED <<task_failed, task_before, arun_calls>>

\* lines 107-122: a coroutine starts, marks its url and awaits crawler.arun
TaskFetch ==
    \E t \in Tasks :
        /\ tasks[t].pc = "new"
        /\ EnterScrapePage(task_visited, tasks[t].url).fetches
        /\ task_visited' = EnterScrapePage(task_visited, tasks[t].url).visited
        /\ arun_calls' = Append(arun_calls, normalize(tasks[t].url))
        /\ tasks' = [tasks EXCEPT ![t].pc = "awaiting", ![t].fetched = TRUE]
        /\ UNCHANGED otherThanTask
        /\ UNCHANGED <<task_failed, task_before>>

\* lines 124-152: the awaited fetch comes back and the coroutine returns
TaskResume ==
    \E t \in Tasks, outcome \in FetchOutcomes :
        /\ tasks[t].pc = "awaiting"
        /\ task_failed' = IF outcome \in {"failed", "raised"}
                          THEN RecordFailure(task_failed, normalize(tasks[t].url), outcome)
                          ELSE task_failed
        /\ tasks' = [tasks EXCEPT ![t].pc = "done",
                                  ![t].returned = IF outcome = "doc" THEN "doc" ELSE "None"]
        /\ UNCHANGED otherThanTask
        /\ UNCHANGED <<task_visited, task_before, arun_calls>>

TaskNext ==
    \/ TaskSkip
    \/ TaskFetch
    \/ TaskResume

Init == CrawlInit /\ IngestInit /\ TwinIdle /\ UrlIdle /\ TextIdle /\ RaceIdle /\ TaskIdle

vars == <<crawlVars, ingestVars, twinVars, urlVars, textVars, raceVars, taskVars>>

Next == CrawlNext

\* the crawler
Spec == Init /\ [][Next]_vars

\* the ingestion pipeline
IngestSpec == Init /\ [][IngestNext]_vars

\* two crawls of one site
TwinSpecInit ==
    CrawlInit /\ IngestInit /\ TwinInit /\ UrlIdle /\ TextIdle /\ RaceIdle /\ TaskIdle

TwinSpec == TwinSpecInit /\ [][TwinNext]_vars

\* a link target through _extract_links
UrlSpecInit ==
    CrawlInit /\ IngestInit /\ TwinIdle /\ UrlInit /\ TextIdle /\ RaceIdle /\ TaskIdle

UrlSpec == UrlSpecInit /\ [][UrlNext]_vars

\* a text through _clean_content
TextSpecInit ==
    CrawlInit /\ IngestInit /\ TwinIdle /\ UrlIdle /\ TextInit /\ RaceIdle /\ TaskIdle

TextSpec == TextSpecInit /\ [][TextNext]_vars

\* two callers of get_or_create_bucket
RaceSpecInit ==
    CrawlInit /\ IngestInit /\ TwinIdle /\ UrlIdle /\ TextIdle /\ RaceInit /\ TaskIdle

RaceSpec == RaceSpecInit /\ [][RaceNext]_vars

\* concurrent scrape_page coroutines on one scraper
TaskSpecInit ==
    CrawlInit /\ IngestInit /\ TwinIdle /\ UrlIdle /\ TextIdle /\ RaceIdle /\ TaskInit

TaskSpec == TaskSpecInit /\ [][TaskNext]_vars

\* the crawler when the event loop keeps running crawl_website and every fetch
\* returns: the loop head is evaluated, and an awaited scrape_page comes back
\* with one of its outcomes; nothing obliges a caller to call crawl_website
FairSpec ==
    /\ Init
    /\ [][Next]_vars
    /\ WF_vars(CrawlReturn)
    /\ WF_vars(ScrapeSkip \/ ScrapeFetch)
    /\ WF_vars(FetchFailed \/ FetchRaised \/ FetchThin \/ FetchDoc \/ ExtractRaised)

(***************************************************************************)
(* Properties of the crawler.                                              *)
(***************************************************************************)
Urls(list) == { list[i].url : i \in 1..Len(list) }

NoDuplicates(list) == \A i, j \in 1..Len(list) : list[i] = list[j] => i = j

\* C1: during and after crawl_website(max_pages) on a scraper that started with
\* no documents, len(scraped_data) <= max_pages.
C1_DocsAtMostMaxPages ==
    (first_run /\ pc # "idle") => Len(scraped_data) <= max_pages

\* the first crawl stopped by the cap, with URLs left in the queue
C1_Witness ==
    /\ first_run /\ pc = "done"
    /\ max_pages = MaxPages
    /\ Len(scraped_data) = max_pages
    /\ urls_to_visit # <<>>

\* C2: no URL is fetched twice; a scrape_page call on a visited URL fetches
\* nothing and leaves visited_urls, failed_urls and scraped_data as they were;
\* no two stored documents share a URL.
C2_NoRefetch ==
    /\ [](NoDuplicates(fetched) /\ Cardinality(Urls(scraped_data)) = Len(scraped_data))
    /\ [][ (/\ pc = "loop"
            /\ urls_to_visit # <<>>
            /\ Len(scraped_data) < max_pages
            /\ RStrip(Head(urls_to_visit), "/") \in visited_urls)
           => (/\ fetched' = fetched
               /\ visited_urls' = visited_urls
               /\ failed_urls' = failed_urls
               /\ scraped_data' = scraped_data
               /\ pc' = "loop"
               /\ urls_to_visit' = Tail(urls_to_visit)) ]_vars

\* a later crawl on the same scraper popped the first seed, fetched in the
\* first crawl, and went on without fetching it
C2_Witness ==
    /\ ~ first_run /\ pc = "loop"
    /\ urls_to_visit = Tail(SEED_URLS)
    /\ cur = SEED_URLS[1]
    /\ fetched # <<>> /\ fetched[1] = SEED_URLS[1]
    /\ Len(scraped_data) >= 2

\* C3: visited_urls holds the URL of every document, of every failure record
\* and of every page skipped as thin.
C3_VisitedCoversOutcomes ==
    (Urls(scraped_data) \cup Urls(failed_urls) \cup thin) \subseteq visited_urls

\* a crawl that has stored a document, recorded a failure and skipped a thin page
C3_Witness ==
    /\ scraped_data # <<>> /\ failed_urls # <<>> /\ thin # {}
    /\ (Urls(scraped_data) \cup Urls(failed_urls) \cup thin) \subseteq visited_urls

(***************************************************************************)
(* The scenario of C10: three seeds, max_pages 2, the first fetch stores a  *)
(* document whose content holds five links, two of them in scope, and the  *)
(* second fetch fails.                                                     *)
(***************************************************************************)
FiveLinks == <<LinkA, LinkC, LinkOther, LinkDe, LinkPdf>>

InScopeOfFiveLinks ==
    { SiteRoot \o <<"/","e","n","/","a">>, SiteRoot \o <<"/","e","n","/","c">> }

C10_Scenario ==
    /\ first_run
    /\ Len(SEED_URLS) = 3
    /\ max_pages = 2
    /\ Len(fetched) >= 2
    /\ scraped_data # <<>>
    /\ scraped_data[1].url = fetched[1]
    /\ scraped_data[1].content = FiveLinks
    /\ failed_urls # <<>>
    /\ failed_urls[1].url = fetched[2]

\* C10 as stated: the crawl ends with one document, one failure, two visited
\* URLs and the discovered in-scope links still queued.
C10_CrawlEndsAfterSecondFetch ==
    (C10_Scenario /\ pc = "done")
        => /\ Len(scraped_data) = 1
           /\ Len(failed_urls) = 1
           /\ Cardinality(visited_urls) = 2
           /\ InScopeOfFiveLinks \subseteq { urls_to_visit[i] : i \in 1..Len(urls_to_visit) }

\* C10 amended: those counts hold when the second fetch has failed, the queue
\* then holds the third seed followed by the two in-scope links, none of them
\* visited, and the crawl goes on: it ends only after the third seed is fetched.
C10_StateAfterSecondFetch ==
    C10_Scenario
        => /\ (pc = "loop" /\ Len(fetched) = 2)
                => /\ Len(scraped_data) = 1
                   /\ Len(failed_urls) = 1
                   /\ Cardinality(visited_urls) = 2
                   /\ Len(urls_to_visit) = 3
                   /\ urls_to_visit[1] = SEED_URLS[3]
                   /\ {urls_to_visit[2], urls_to_visit[3]} = InScopeOfFiveLinks
                   /\ \A i \in 1..3 : urls_to_visit[i] \notin visited_urls
                   /\ urls_to_visit # <<>> /\ Len(scraped_data) < max_pages
           /\ pc = "done"
                => /\ Cardinality(visited_urls) >= 3
                   /\ SEED_URLS[3] \in visited_urls

\* the scenario, right after the second fetch failed
C10_Witness ==
    /\ C10_Scenario
    /\ pc = "loop"
    /\ Len(fetched) = 2
    /\ Len(failed_urls) = 1
    /\ Len(urls_to_visit) = 3

(***************************************************************************)
(* Properties of the ingestion pipeline, checked under IngestSpec.         *)
(***************************************************************************)
Returned == ipc \in {"returned", "summary"}

BucketErrors == {"buckets.list failed", "buckets.create failed"}

\* the audit record of the k-th iteration of the running call
RecordOf(k) == results[Len(results) - Len(run_log) + k]

\* C4: after an ingest_from_json call that returns on a fresh ingestor,
\* stats.success + stats.failed = stats.total = the number of documents loaded.
C4_CountersAddUp ==
    (Returned /\ ~ reused)
        => /\ stats.success + stats.failed = stats.total
           /\ stats.total = Len(documents)

\* a first run that returned after a success and an empty response
C4_Witness ==
    /\ Returned /\ ~ reused
    /\ Len(run_log) = 2
    /\ run_log[1].outcome = "ok" /\ run_log[2].outcome = "empty"
    /\ stats = [total |-> 2, success |-> 1, failed |-> 1]

\* C5: after every ingest_from_json call that returns, also a later one on the
\* same ingestor, stats.success + stats.failed = stats.total and the audit
\* trail holds stats.total records.
C5_CountersAddUpAfterAnyRun ==
    Returned
        => /\ stats.success + stats.failed = stats.total
           /\ Len(results) = stats.total

C8_AuditBeforeCleanup ==
    [][ /\ (ipc = "doc" /\ ipc' # "blocked")
              => /\ Len(results') = Len(results) + 1
                 /\ SubSeq(results', 1, Len(results)) = results
                 /\ results'[Len(results')].doc_id = documents[idx]
                 /\ results'[Len(results')].status \in {"success", "failed"}
                 /\ temp_dir /\ temp_dir'
                 /\ temp_files \subseteq temp_files'
        /\ ((temp_dir /\ ~ temp_dir') \/ ~ (temp_files \subseteq temp_files'))
              => /\ results' = results
                 /\ Len(run_log) = Len(documents)
                 /\ Len(results) >= Len(run_log) ]_vars

\* the temp files are gone after a run whose two documents both failed, one
\* before and one at its submission; both are on the audit trail
C8_Witness ==
    /\ ipc = "save"
    /\ ~ temp_dir /\ temp_files = {}
    /\ Len(run_log) = 2
    /\ run_log[1].outcome = "open_raise" /\ run_log[2].outcome = "empty"
    /\ Len(results) = 2

\* C9: the wait for a submitted job always ends (within timeout + one poll
\* interval), also when the remote status never becomes final, and the job
\* then has the local status TIMED_OUT.
C9_WaitEndsTimedOut ==
    /\ ipc # "blocked"
    /\ \A k \in 1..Len(run_log) :
          run_log[k].outcome = "wait_raise" => RecordOf(k).status = "TIMED_OUT"

(***************************************************************************)
(* Properties of two crawls of one site, checked under TwinSpec.           *)
(***************************************************************************)
BothDone == Len(twin) = 2 /\ twin[1].pc = "done" /\ twin[2].pc = "done"

\* C11: two crawls with the same seeds and max_pages of a site that answers
\* every URL the same way fetch the same URLs in the same order and store the
\* same sequence of documents.
C11_SameFetchOrderAndDocuments ==
    BothDone
        => /\ twin[1].fetched = twin[2].fetched
           /\ twin[1].docs = twin[2].docs

(***************************************************************************)
(* Properties of link canonicalization and filtering, checked under        *)
(* UrlSpec.                                                                *)
(***************************************************************************)
\* C12: two targets that differ only in a trailing slash, a query or a
\* fragment get the same cleaned URL and the same visited key, and cleaning a
\* cleaned URL gives it back.
C12_CanonAgreesAndIsIdempotent ==
    /\ match_out.stage \in {"clean", "again", "filtered"}
          => /\ match_out.c1 = match_out.c2
             /\ normalize(match_out.c1) = normalize(match_out.c2)
             /\ normalize(match_out.c1) = match_out.c1
    /\ match_out.stage \in {"again", "filtered"}
          => match_out.again = match_out.c1

\* the host is the target domain or one of its subdomains
HostIsTarget(netloc) ==
    \/ netloc = <<"i","t","n","b",".","c","h">>
    \/ EndsWith(netloc, <<".","i","t","n","b",".","c","h">>)

\* /en is the leading segment of the path
UnderLocale(path) ==
    \/ path = <<"/","e","n">>
    \/ StartsWith(path, <<"/","e","n","/">>)

\* C13: a URL is accepted only if its host is the target domain, its path is
\* under /en and its extension is not skipped; a URL of another host or
\* outside /en is rejected and not queued.
C13_OnlyTargetLocaleAccepted ==
    match_out.stage = "filtered"
        => /\ match_out.valid
                => /\ HostIsTarget(urlparse(match_out.c1).netloc)
                   /\ UnderLocale(urlparse(match_out.c1).path)
                   /\ ~ \E ext \in SKIP_EXTENSIONS :
                           EndsWith(Lower(urlparse(match_out.c1).path), ext)
           /\ (~ HostIsTarget(urlparse(match_out.c1).netloc)
                 \/ ~ UnderLocale(urlparse(match_out.c1).path))
                => /\ ~ match_out.valid
                   /\ match_out.queue = <<>>

(***************************************************************************)
(* Properties of _clean_content, checked under TextSpec.                   *)
(***************************************************************************)
\* C14: cleaning a cleaned text changes nothing:
\* _clean_content(_clean_content(x)) = _clean_content(x) for every text x.
C14_CleanIsIdempotent ==
    Len(text_out) = 2 => text_out[2] = text_out[1]

(***************************************************************************)
(* Properties of get_or_create_bucket under two callers, checked under     *)
(* RaceSpec.                                                               *)
(***************************************************************************)
CountNamed(buckets, name) == Cardinality({ i \in 1..Len(buckets) : buckets[i].name = name })

\* the caller other than c
OtherCaller(c) == CHOOSE d \in Callers : d # c

\* C15: a caller creates a bucket only when the listing it got holds none of
\* that name, and otherwise returns the first match of that listing; a caller
\* whose two requests the other caller has not come between leaves exactly one
\* bucket of the name where there was none; nothing stops two callers from
\* both listing before either creates.
C15_FindOrCreateNotAtomic ==
    \A c \in DOMAIN callers :
        /\ callers[c].created => CountNamed(callers[c].seen, callers[c].name) = 0
        /\ (callers[c].pc = "done" /\ ~ callers[c].created)
              => \E i \in 1..Len(callers[c].seen) :
                    /\ callers[c].seen[i].name = callers[c].name
                    /\ callers[c].seen[i].bucket_id = callers[c].bucket_id
                    /\ \A k \in 1..(i - 1) : callers[c].seen[k].name # callers[c].name
        /\ (callers[c].pc = "done" /\ callers[OtherCaller(c)].pc = "start")
              => CountNamed(shared_buckets, callers[c].name)
                    = (IF CountNamed(callers[c].seen, callers[c].name) = 0
                       THEN 1 ELSE CountNamed(callers[c].seen, callers[c].name))

\* both callers asked for the same name, both listings held none, both created:
\* the service holds two buckets of that name
C15_Witness ==
    /\ DOMAIN callers = Callers
    /\ \A c \in Callers :
          /\ callers[c].pc = "done"
          /\ callers[c].name = BucketName
          /\ callers[c].created
          /\ CountNamed(callers[c].seen, BucketName) = 0
    /\ CountNamed(shared_buckets, BucketName) = 2
    /\ callers["c1"].bucket_id # callers["c2"].bucket_id

(***************************************************************************)
(* More properties of the ingestion pipeline, checked under IngestSpec.    *)
(***************************************************************************)
LoopLeft == ipc \in {"save", "returned", "summary"}

\* how often position k was handed to client.ingest
TimesSubmitted(k) == Cardinality({ i \in 1..Len(submitted) : submitted[i] = k })

\* C16 as stated: when the loop has ended every document of the list has been
\* submitted to the remote service exactly once.
C16_EveryDocumentSubmittedOnce ==
    LoopLeft => \A k \in 1..Len(documents) : TimesSubmitted(k) = 1

\* C16 amended: every document of the list gets exactly one iteration, in list
\* order, whatever the outcomes before it; none is submitted twice; it is
\* submitted once, unless writing its temp file raised, in which case it is
\* recorded as failed without having been submitted.
C16_EveryDocumentAttemptedOnce ==
    /\ \A i, j \in 1..Len(submitted) : i < j => submitted[i] < submitted[j]
    /\ \A k \in 1..Len(run_log) : run_log[k].pos = k
    /\ LoopLeft
          => /\ Len(run_log) = Len(documents)
             /\ \A k \in 1..Len(documents) :
                   /\ TimesSubmitted(k) = (IF run_log[k].outcome = "open_raise" THEN 0 ELSE 1)
                   /\ run_log[k].outcome = "open_raise" => RecordOf(k).status = "failed"

\* a run of two documents has left the loop: the temp file of the first could
\* not be written, the second was submitted after it
C16_Witness ==
    /\ LoopLeft
    /\ Len(documents) = 2
    /\ run_log[1].outcome = "open_raise"
    /\ run_log[2].outcome = "ingest_raise"
    /\ submitted = <<2>>

TerminalStatus == {"success", "failed"}

\* C17: the status of an attempt starts as "pending", is set once, to "success"
\* or "failed", and is not set again; the record is appended with that status,
\* the records of the audit trail never change, and none of them is pending.
C17_StatusMonotonic ==
    /\ [](\A k \in 1..Len(results) : results[k].status \in TerminalStatus)
    /\ [][ (ipc' = "doc" /\ ipc # "doc") => result'.status = "pending" ]_vars
    /\ [][ (result.status = "pending" /\ result' # result)
              => /\ result'.status \in TerminalStatus
                 /\ result'.doc_id = result.doc_id
                 /\ results' = Append(results, result') ]_vars
    /\ [][ (result.status \in TerminalStatus /\ result' # result)
              => /\ result'.status = "pending"
                 /\ ipc = "loop" /\ ipc' = "doc"
                 /\ results' = results ]_vars
    /\ [][ /\ Len(results') >= Len(results)
           /\ SubSeq(results', 1, Len(results)) = results ]_vars

\* the second attempt of a run is pending, the first ended as failed on an
\* empty response and is on the audit trail
C17_Witness ==
    /\ ipc = "doc"
    /\ idx = 2
    /\ result.status = "pending"
    /\ run_log[1].outcome = "empty"
    /\ results[Len(results)].status = "failed"

(***************************************************************************)
(* More properties of the crawler, checked under Spec.                     *)
(***************************************************************************)
IsPrefix(a, b) == Len(a) <= Len(b) /\ SubSeq(b, 1, Len(a)) = a

Elements(list) == { list[i] : i \in 1..Len(list) }

\* C18: a fetch that fails or raises appends one failure record for the URL
\* that was fetched, stores no document and queues nothing, and the loop goes
\* on with the next URL of the queue; failed_urls only grows.
C18_FetchFailureNonFatal ==
    /\ [][ IsPrefix(failed_urls, failed_urls') ]_vars
    /\ [][ (pc = "fetch" /\ scraped_data' = scraped_data /\ thin' = thin)
              => /\ Len(failed_urls') = Len(failed_urls) + 1
                 /\ failed_urls'[Len(failed_urls')].url = fetched[Len(fetched)]
                 /\ urls_to_visit' = urls_to_visit
                 /\ visited_urls' = visited_urls
                 /\ pc' = "loop" ]_vars
    /\ [][ failed_urls' # failed_urls
              => /\ pc = "fetch"
                 /\ scraped_data' = scraped_data
                 /\ urls_to_visit' = urls_to_visit ]_vars
    /\ [][ (pc = "loop" /\ urls_to_visit # <<>> /\ Len(scraped_data) < max_pages)
              => /\ urls_to_visit' = Tail(urls_to_visit)
                 /\ cur' = Head(urls_to_visit) ]_vars

\* the first fetch of a crawl failed, the crawl went on and stored the next
\* page it fetched
C18_Witness ==
    /\ first_run
    /\ Len(failed_urls) = 1
    /\ failed_urls[1].url = fetched[1]
    /\ Len(fetched) = 2
    /\ Len(scraped_data) = 1
    /\ scraped_data[1].url = fetched[2]

\* C19: a page whose cleaned content has fewer than 20 words is dropped: its
\* URL is in visited_urls, and it adds no document, no failure record and no
\* link; every stored document has word_count >= 20.
C19_ThinPagesDropped ==
    /\ [](\A i \in 1..Len(scraped_data) : scraped_data[i].word_count >= MIN_WORDS)
    /\ [](/\ thin \subseteq visited_urls
          /\ thin \cap Urls(scraped_data) = {}
          /\ thin \cap Urls(failed_urls) = {})
    /\ [][ thin' # thin
              => /\ pc = "fetch"
                 /\ thin' = thin \cup {fetched[Len(fetched)]}
                 /\ scraped_data' = scraped_data
                 /\ failed_urls' = failed_urls
                 /\ urls_to_visit' = urls_to_visit
                 /\ pc' = "loop" ]_vars

\* the first page of a crawl was thin, the second was stored with exactly 20
\* words
C19_Witness ==
    /\ first_run
    /\ Len(fetched) = 2
    /\ thin = {fetched[1]}
    /\ Len(scraped_data) = 1
    /\ scraped_data[1].url = fetched[2]
    /\ scraped_data[1].word_count = MIN_WORDS
    /\ failed_urls = <<>>

\* C20: a link is appended to the queue only if it is neither visited nor
\* queued; the queue never holds a URL twice and no URL is put in it twice by
\* one crawl_website call; in the crawl of a fresh scraper the queue holds no
\* visited URL at the head of the loop.
C20_DedupAtEnqueue ==
    /\ [](NoDuplicates(urls_to_visit) /\ NoDuplicates(enqueued))
    /\ []((first_run /\ pc = "loop") => Elements(urls_to_visit) \cap visited_urls = {})
    /\ [][ (pc = "fetch" /\ urls_to_visit' # urls_to_visit)
              => /\ IsPrefix(urls_to_visit, urls_to_visit')
                 /\ \A i \in (Len(urls_to_visit) + 1)..Len(urls_to_visit') :
                       /\ urls_to_visit'[i] \notin visited_urls
                       /\ urls_to_visit'[i] \notin Elements(urls_to_visit) ]_vars

\* the first page linked to /en/a twice, in two spellings, and to the queued
\* seed /en/about: only /en/a was appended, once
C20_Witness ==
    /\ first_run /\ pc = "loop"
    /\ Len(fetched) = 1
    /\ Len(scraped_data) = 1
    /\ scraped_data[1].content = <<LinkASlashQuery, LinkAbout, LinkRelative, LinkAnchor, LinkJs, LinkA>>
    /\ urls_to_visit = Tail(SEED_URLS) \o << SiteRoot \o <<"/","e","n","/","a">> >>

(***************************************************************************)
(* Termination of crawl_website, checked under FairSpec.                   *)
(***************************************************************************)
InLoop == pc \in {"loop", "fetch"}

CapOrExhausted == urls_to_visit = <<>> \/ Len(scraped_data) >= max_pages

\* every call of crawl_website ends, by returning or by raising
CrawlTerminates == InLoop ~> (pc \in {"done", "raised"})

\* C21: crawl_website terminates, it leaves its loop only at the loop head with
\* the queue empty or the document count at max_pages, as soon as one of the
\* two holds, and it then returns scraped_data as it is, without raising.
C21_StopsAtExhaustionOrCap ==
    /\ CrawlTerminates
    /\ [][(InLoop /\ ~ InLoop')
             => (/\ pc = "loop"
                 /\ CapOrExhausted
                 /\ pc' = "done"
                 /\ scraped_data' = scraped_data)]_vars
    /\ [][(pc = "loop" /\ CapOrExhausted)
             => (pc' = "done" /\ scraped_data' = scraped_data)]_vars

(***************************************************************************)
(* Concurrent scrape_page coroutines, checked under TaskSpec.              *)
(***************************************************************************)
\* the coroutines that have run lines 107-112 for the page u
Entered(u) == { t \in Tasks : tasks[t].pc # "new" /\ normalize(tasks[t].url) = u }

Fetchers(u) == { t \in Entered(u) : tasks[t].fetched }

TimesFetched(u) == Cardinality({ i \in 1..Len(arun_calls) : arun_calls[i] = u })

\* C22: of the coroutines given one url, as many as have started, exactly one
\* calls crawler.arun for it (none when the scraper had visited it before);
\* every other one has returned None without fetching, also while the
\* fetching one is still suspended in its await.
C22_CheckAndInsertAtomic ==
    \A u \in { normalize(x) : x \in TaskUrls } :
        /\ Entered(u) # {}
              => /\ Cardinality(Fetchers(u)) = (IF u \in task_before THEN 0 ELSE 1)
                 /\ TimesFetched(u) = Cardinality(Fetchers(u))
                 /\ u \in task_visited
        /\ \A t \in Entered(u) \ Fetchers(u) :
              tasks[t].pc = "done" /\ tasks[t].returned = "None"

\* three coroutines were given one page, in two spellings; one is suspended in
\* its fetch and the two others have already returned without fetching
C22_Witness ==
    /\ \A t \in Tasks : normalize(tasks[t].url) = SEED_URLS[2]
    /\ \E t, v \in Tasks : tasks[t].url # tasks[v].url
    /\ \E t \in Tasks :
          /\ tasks[t].pc = "awaiting"
          /\ \A v \in Tasks \ {t} : tasks[v].pc = "done" /\ ~ tasks[v].fetched
    /\ arun_calls = << SEED_URLS[2] >>

(***************************************************************************)
(* The order of the traversal, checked under Spec.                         *)
(***************************************************************************)
\* how many URLs the running call has taken off the front of its queue
Popped == Len(enqueued) - Len(urls_to_visit)

PositionFetched(u) == CHOOSE k \in 1..Len(fetched) : fetched[k] = u

\* C23: in the crawl of a fresh scraper the URLs fetched so far are, in order,
\* the first URLs that were put in the queue, and the queue holds the rest in
\* the same order; so a discovered link is fetched only after every seed, and
\* a crawl that returns with a seed unfetched has reached the cap.  The
\* documents of scraped_data are in the order their URLs were fetched.
C23_FetchOrderIsQueueOrder ==
    /\ first_run
          => /\ fetched = SubSeq(enqueued, 1, Popped)
             /\ urls_to_visit = SubSeq(enqueued, Popped + 1, Len(enqueued))
             /\ \A i \in 1..Len(fetched) :
                   fetched[i] \notin Elements(SEED_URLS)
                       => Elements(SEED_URLS) \subseteq Elements(SubSeq(fetched, 1, i - 1))
             /\ (pc = "done" /\ ~ (Elements(SEED_URLS) \subseteq Elements(fetched)))
                   => Len(scraped_data) >= max_pages
    /\ \A i, j \in 1..Len(scraped_data) :
          /\ scraped_data[i].url \in Elements(fetched)
          /\ i < j => PositionFetched(scraped_data[i].url) < PositionFetched(scraped_data[j].url)

\* all seeds were fetched, then a discovered link, and the page behind it was
\* stored after the document of a seed
C23_Witness ==
    /\ first_run /\ pc = "loop"
    /\ Len(fetched) = Len(SEED_URLS) + 1
    /\ fetched[Len(fetched)] \notin Elements(SEED_URLS)
    /\ Len(scraped_data) >= 2
    /\ scraped_data[Len(scraped_data)].url = fetched[Len(fetched)]
    /\ urls_to_visit # <<>>

(***************************************************************************)
(* Counters and audit records during a run, checked under IngestSpec.      *)
(***************************************************************************)
\* between two iterations of the document loop, and after the loop
AtIterationBoundary == ipc \in {"loop", "save", "returned", "summary"}

CountStatus(status) == Cardinality({ i \in 1..Len(results) : results[i].status = status })

\* C24: in a run on a fresh ingestor, at every iteration boundary, stats.success
\* is the number of audit records with status success, stats.failed the number
\* with status failed, their sum the number of records, which is the number of
\* documents attempted so far and at most stats.total.
C24_CountersMatchRecords ==
    (AtIterationBoundary /\ ~ reused)
        => /\ stats.success = CountStatus("success")
           /\ stats.failed = CountStatus("failed")
           /\ stats.success + stats.failed = Len(results)
           /\ Len(results) = idx - 1
           /\ Len(results) = Len(run_log)
           /\ Len(results) <= stats.total

\* a first run between its first iteration, which failed, and its second
C24_Witness ==
    /\ ipc = "loop" /\ ~ reused
    /\ Len(documents) = 2 /\ idx = 2
    /\ Len(results) = 1 /\ results[1].status = "failed"
    /\ stats = [total |-> 2, success |-> 0, failed |-> 1]

(***************************************************************************)
(* One outcome per visited URL, checked under Spec.                        *)
(***************************************************************************)
\* between two iterations of the crawl loop, before the first and after the last
AtLoopBoundary == pc \in {"idle", "loop", "done"}

\* C25: at every boundary of a crawl loop iteration the URLs of the documents,
\* of the failure records and of the thin pages are pairwise disjoint, their
\* union is visited_urls, no URL has two documents or two failure records,
\* and so |visited| = |documents| + |failed_urls| + |thin|.
C25_OneOutcomePerVisitedUrl ==
    AtLoopBoundary
        => /\ Urls(scraped_data) \cap Urls(failed_urls) = {}
           /\ Urls(scraped_data) \cap thin = {}
           /\ Urls(failed_urls) \cap thin = {}
           /\ Urls(scraped_data) \cup Urls(failed_urls) \cup thin = visited_urls
           /\ Cardinality(Urls(scraped_data)) = Len(scraped_data)
           /\ Cardinality(Urls(failed_urls)) = Len(failed_urls)
           /\ Cardinality(visited_urls)
                = Len(scraped_data) + Len(failed_urls) + Cardinality(thin)

\* a crawl between two iterations after a document, a failure and a thin page
C25_Witness ==
    /\ pc = "loop"
    /\ Len(scraped_data) = 1 /\ Len(failed_urls) = 1 /\ Cardinality(thin) = 1
    /\ Cardinality(visited_urls) = 3
    /\ urls_to_visit # <<>>

====
